---- MODULE Spec2Model ----
(***************************************************************************)
(* Real-time voice gateway of lando-backend-call-routing (src/server.ts):  *)
(* the WebSocket connection handler that bridges a telephony media stream  *)
(* to a Gemini live session, the prompt it builds for that session, its    *)
(* tool-call dispatcher, and the dropped call recovery (incomplete record  *)
(* + deferred callback timer).                                             *)
(*                                                                         *)
(* Every await of the source is a point where the handler yields; each     *)
(* action below is the synchronous run of code between two awaits.         *)
(***************************************************************************)
EXTENDS Integers, Sequences, FiniteSets, TLC

\* ---------------------------------------------------------------- bounds
MaxTranscript == 1    \* transcript entries pushed per session
MaxBatch == 2         \* function calls in one tool-call message
MaxFrames == 1        \* media frames per direction and session
MaxChunks == 2        \* frames per direction whose order is followed

\* two socket connections, in the order they are accepted; they may be
\* calls of one number or of two, at the same time or one after the other
Sessions == {1, 2}
Phones == {"P", "Q"}
NoPhone == "null"     \* urlParams.get('from') of a URL without from=
NoTimer == 0

\* the five declared voice tools, and a name that is none of them
HttpTools == {"create_work_order", "get_zipcode_for_address", "lookup_work_order"}
TwilioTools == {"send_sms", "route_to_technician"}
ToolNames == HttpTools \cup TwilioTools \cup {"other_tool"}

\* outcomes of an awaited external request
HttpOutcomes == {"ok", "notok", "throws"}
LookupOutcomes == {"incomplete", "complete", "missing", "notok", "throws"}

VARIABLES
  pc,               \* position of wss.on('connection') for each socket
  phone,            \* customerPhoneNumber
  sock,             \* the ws socket: none, open, closing (ws.close() called), closed
  handlers,         \* ws.on('message') and ws.on('close') are installed
  stream,           \* what the provider has sent on the socket: new, started, stopped
  ai,               \* the Gemini live session: none, open, errored (onerror ran), closed
  resume,           \* whether the resume annotation was prefixed to the prompt
  streamSid,        \* ws.streamSid / ws.callSid captured from 'start'
  transcript,       \* conversationTranscript.length
  workOrderCreated, \* the flag of the same name
  tasks,            \* running onmessage tool-call loops of each session
  toolResponses,    \* session.sendToolResponse calls issued, in order, each with
                    \* whether the awaited call it answers succeeded (out)
  closePc,          \* position of the ws.on('close') handler
  sumResult,        \* how the summarization request settled: none, ok, fail
  saveResult,       \* how the save request settled: none, ok, notok, throws
  relayed,          \* inbound frames handed to sendRealtimeInput
  wsSent,           \* outbound media frames ws.send wrote to the socket
  wsLost,           \* outbound media frames ws.send discarded (socket not open)
  callbackTimers,   \* the process-wide map phone -> timer handle
  timers,           \* every setTimeout handle created, by arming session
  records,          \* records accepted by the records service on the recovery path
  calledBack,       \* history: the number called in again after this session dropped
  uncaught,         \* sessions one of whose handlers let an exception escape
  promptPc,         \* position of the prompt construction: off, start, lookup, connect
  customerPhoneNumber, \* urlParams.get('from') of the connection whose prompt is built
  dialedPhoneNumber,   \* urlParams.get('to'): a digit sequence, <<>> when absent or empty
  context,          \* urlParams.get('context')
  nowInChicago,     \* its getDay() and getHours(): the wall clock in Chicago
  incompleteOrder,  \* the response of the resume lookup
  systemPrompt,     \* the prompt: the annotations in text order, then the persona
  codec,            \* one run of the audio conversion utilities: its position
                    \* (pc), the path it follows, and the buffers of the
                    \* two relays by their names in the source
  store,            \* the records service: the rows of the sheet, the request
                    \* the recovery path posted, what createWorkorder returned
                    \* and what the lookup answered
  opened,           \* per session: the timer whose placed call opened it
                    \* (context=callback), NoTimer for a call of the customer
  relay,            \* the audio of one session, frame by frame: what arrived
                    \* from each side, the callbacks queued on sessionPromise,
                    \* and what was handed on to the other side, in order
  sms               \* one request to /incoming-sms: its position, the
                    \* function calls the chat asked for, the toolResults
                    \* gathered, what was sent back to the chat, and the reply

promptVars == <<promptPc, customerPhoneNumber, dialedPhoneNumber, context, nowInChicago,
                incompleteOrder, systemPrompt>>

vars == <<pc, phone, sock, handlers, stream, ai, resume, streamSid, transcript, workOrderCreated,
          tasks, toolResponses, closePc, sumResult, saveResult, relayed, wsSent, wsLost,
          callbackTimers, timers, records, calledBack, uncaught,
          promptPc, customerPhoneNumber, dialedPhoneNumber, context, nowInChicago,
          incompleteOrder, systemPrompt, codec, store, opened, relay, sms>>

\* the origin of each session and the text conversation
sideVars == <<opened, relay, sms>>

sessVars == <<pc, phone, sock, handlers, stream, ai, resume, streamSid, transcript, workOrderCreated>>
toolVars == <<tasks, toolResponses>>
closeVars == <<closePc, sumResult, saveResult>>
audioVars == <<relayed, wsSent, wsLost>>
timerVars == <<callbackTimers, timers, records, calledBack>>

NoTimerRec == [phone |-> NoPhone, st |-> "none", res |-> "none", call |-> "none"]

\* the keys of a looked-up record in the order of its JSON text, and the
\* kinds of value a key can have: not present, null, "", a non-empty text
KeyOrder == <<"firstName", "status", "phone">>
Keys == {KeyOrder[i] : i \in DOMAIN KeyOrder}
FieldValues == {"absent", "null", "", "text"}
StatusValues == {"absent", "incomplete", "complete"}
Records ==
  {r \in [Keys -> FieldValues \cup StatusValues] :
      /\ r["status"] \in StatusValues
      /\ \A k \in Keys \ {"status"} : r[k] \in FieldValues}
NoRecord == [k \in Keys |-> "absent"]

\* what the lookup request can answer: a network error, a status that is
\* not OK, an OK body that is not JSON, the JSON text null, a JSON object
LookupResponses ==
  {[kind |-> k, rec |-> NoRecord] : k \in {"throws", "notok", "unparsable", "null"}}
    \cup {[kind |-> "record", rec |-> r] : r \in Records}
NoResponse == [kind |-> "none", rec |-> NoRecord]

\* dialed numbers: a technician line, one with a longer prefix, one that
\* holds a technician suffix but does not end in it, one shorter than a
\* suffix, and none
DialedNumbers ==
  {<<>>, <<7, 7, 9, 7>>, <<1, 7, 7, 9, 4>>, <<7, 7, 9, 2, 0>>, <<5, 5, 5>>}
WeekDays == 0..6
Hours == 0..23

InitSessions ==
  /\ pc = [s \in Sessions |-> "idle"]
  /\ phone = [s \in Sessions |-> NoPhone]
  /\ sock = [s \in Sessions |-> "none"]
  /\ handlers = [s \in Sessions |-> FALSE]
  /\ stream = [s \in Sessions |-> "new"]
  /\ ai = [s \in Sessions |-> "none"]
  /\ resume = [s \in Sessions |-> FALSE]
  /\ streamSid = [s \in Sessions |-> FALSE]
  /\ transcript = [s \in Sessions |-> 0]
  /\ workOrderCreated = [s \in Sessions |-> FALSE]
  /\ tasks = [s \in Sessions |-> <<>>]
  /\ toolResponses = [s \in Sessions |-> <<>>]
  /\ closePc = [s \in Sessions |-> "none"]
  /\ sumResult = [s \in Sessions |-> "none"]
  /\ saveResult = [s \in Sessions |-> "none"]
  /\ relayed = [s \in Sessions |-> 0]
  /\ wsSent = [s \in Sessions |-> 0]
  /\ wsLost = [s \in Sessions |-> 0]
  /\ callbackTimers = [p \in Phones |-> NoTimer]
  /\ timers = [s \in Sessions |-> NoTimerRec]
  /\ records = [p \in Phones |-> "none"]
  /\ calledBack = [s \in Sessions |-> FALSE]
  /\ uncaught = {}

\* no prompt under construction
PromptOff ==
  /\ promptPc = "off"
  /\ customerPhoneNumber = NoPhone
  /\ dialedPhoneNumber = <<>>
  /\ context = "null"
  /\ nowInChicago = [day |-> 0, hour |-> 0]
  /\ incompleteOrder = NoResponse
  /\ systemPrompt = <<>>

\* no audio conversion under way
\* no conversion is running
NoAudio ==
  [pc |-> "off", path |-> "none", pcm24k |-> <<>>, pcm8k |-> <<>>, mulaw |-> <<>>,
   decoded |-> <<>>, pcm16k |-> <<>>, biased |-> <<>>]

CodecOff == codec = NoAudio

\* what JSON.parse made of the summarization's text: a JSON object, an
\* array, or null; with the phone, the status and the last name it carries
NoExtraction == [shape |-> "none", phone |-> "absent", status |-> "absent", lastName |-> "absent"]
NoRequest == [caller |-> NoPhone, extracted |-> NoExtraction, body |-> NoExtraction]
NoResult == [success |-> FALSE, appended |-> FALSE, threw |-> FALSE]
NoRow == [kind |-> "none", created |-> 0, phone |-> "", status |-> ""]

\* an empty sheet, nothing posted, nothing returned
EmptyStore ==
  [pc |-> "off", clock |-> 0, sheet |-> <<>>, request |-> NoRequest,
   result |-> NoResult, found |-> NoRow]

StoreEmpty == store = EmptyStore

\* no text message is being handled
NoSms ==
  [pc |-> "off", functionCalls |-> <<>>, toolResults |-> <<>>, parts |-> <<>>,
   threw |-> FALSE, reply |-> "none"]

\* no frame has arrived
NoRelay == [media |-> 0, jobs |-> <<>>, toAI |-> <<>>, chunks |-> 0, toWs |-> <<>>]

SideOff ==
  /\ sms = NoSms
  /\ opened = [s \in Sessions |-> NoTimer]
  /\ relay = NoRelay

Init == InitSessions /\ PromptOff /\ CodecOff /\ StoreEmpty /\ SideOff

\* a connection is accepted: its URL parameters and the time of the call
InitPrompt ==
  /\ InitSessions
  /\ promptPc = "start"
  /\ customerPhoneNumber \in {"P", NoPhone}
  /\ dialedPhoneNumber \in DialedNumbers
  /\ context \in {"callback", "null"}
  /\ nowInChicago \in [day : WeekDays, hour : Hours]
  /\ incompleteOrder = NoResponse
  /\ systemPrompt = <<>>
  /\ CodecOff /\ StoreEmpty /\ SideOff

\* ------------------------------------------------------- session opening

\* clearTimeout(h): disarms h when it has not fired yet, else does nothing
ClearTimeout(tm, h) ==
  IF tm[h].st = "armed" THEN [tm EXCEPT ![h].st = "cancelled"] ELSE tm

\* mutant: the pending callback is left alone when the number calls in
KeepPendingCallback(p) ==
  UNCHANGED <<callbackTimers, timers>>

\* if (customerPhoneNumber && callbackTimers[customerPhoneNumber]) { clearTimeout; delete }
CancelPendingCallback(p) ==
  IF p # NoPhone /\ callbackTimers[p] # NoTimer
  THEN /\ timers' = ClearTimeout(timers, callbackTimers[p])
       /\ callbackTimers' = [callbackTimers EXCEPT ![p] = NoTimer]
  ELSE UNCHANGED <<callbackTimers, timers>>

\* a session of the same number whose drop has an outstanding callback:
\* its close handler is on the recovery path or its timer has not fired
DropOutstanding(d) ==
  \/ closePc[d] \in {"summarizing", "saving"}
  \/ timers[d].st = "armed"

\* wss.on('connection') up to its first await
OpenSession(s, p) ==
  /\ pc[s] = "idle"
  /\ \A r \in Sessions : r < s => pc[r] # "idle"
  /\ CancelPendingCallback(p)
  /\ calledBack' = [d \in Sessions |->
        calledBack[d] \/ (p # NoPhone /\ phone[d] = p /\ DropOutstanding(d))]
  /\ phone' = [phone EXCEPT ![s] = p]
  /\ sock' = [sock EXCEPT ![s] = "open"]
  /\ pc' = [pc EXCEPT ![s] = IF p # NoPhone THEN "lookup" ELSE "connecting"]
  /\ UNCHANGED <<handlers, stream, ai, resume, streamSid, transcript,
                 workOrderCreated, records, uncaught>>
  /\ UNCHANGED <<toolVars, closeVars, audioVars>>
  /\ UNCHANGED <<promptVars, codec, store>>

\* the stream of POST /incoming-call connects: no context in its URL
Connect(s, p) ==
  /\ OpenSession(s, p)
  /\ UNCHANGED sideVars

\* the call placed by the callback of timer h is answered: POST
\* /outbound-call streams it to the gateway with from= the number called
\* and context=callback
OutboundConnect(s, h) ==
  /\ timers[h].call = "placed"
  /\ \A r \in Sessions : opened[r] # h
  /\ OpenSession(s, timers[h].phone)
  /\ opened' = [opened EXCEPT ![s] = h]
  /\ UNCHANGED <<relay, sms>>

\* the resume lookup returns; only an OK, parsable body with status
\* 'incomplete' prefixes the resume annotation; then ai.live.connect is awaited
LookupReturn(s, outcome) ==
  /\ pc[s] = "lookup"
  /\ resume' = [resume EXCEPT ![s] = (outcome = "incomplete")]
  /\ pc' = [pc EXCEPT ![s] = "connecting"]
  /\ UNCHANGED <<phone, sock, handlers, stream, ai, streamSid, transcript,
                 workOrderCreated, uncaught>>
  /\ UNCHANGED <<toolVars, closeVars, audioVars, timerVars>>
  /\ UNCHANGED <<promptVars, codec, store, sideVars>>

\* ws.close(): starts the closing handshake of a socket that is still open
WsClose(sk) == IF sk = "open" THEN "closing" ELSE sk

\* mutant: the socket handlers are installed although the session failed
ConnectFailedInstalls(s) ==
  /\ pc' = [pc EXCEPT ![s] = "failed"]
  /\ handlers' = [handlers EXCEPT ![s] = TRUE]
  /\ sock' = [sock EXCEPT ![s] = WsClose(sock[s])]
  /\ UNCHANGED ai

\* catch (error) { ws.close(); } : no handler was installed on the socket
ConnectFailed(s) ==
  /\ pc' = [pc EXCEPT ![s] = "failed"]
  /\ sock' = [sock EXCEPT ![s] = WsClose(sock[s])]
  /\ UNCHANGED <<ai, handlers>>

\* geminiSession = await sessionPromise; ws.on('message'); ws.on('close')
ConnectOpened(s) ==
  /\ pc' = [pc EXCEPT ![s] = "ready"]
  /\ ai' = [ai EXCEPT ![s] = "open"]
  /\ handlers' = [handlers EXCEPT ![s] = TRUE]
  /\ UNCHANGED sock

\* await sessionPromise settles
ConnectReturn(s, ok) ==
  /\ pc[s] = "connecting"
  /\ IF ok THEN ConnectOpened(s) ELSE ConnectFailed(s)
  /\ UNCHANGED <<phone, stream, resume, streamSid, transcript, workOrderCreated,
                 uncaught>>
  /\ UNCHANGED <<toolVars, closeVars, audioVars, timerVars>>
  /\ UNCHANGED <<promptVars, codec, store, sideVars>>

\* ------------------------------------------------ tool-call dispatch

\* mutant: the catch of the Twilio branches answers like their try
ToolResultOkInCatch(name, outcome) ==
  IF outcome = "ok" \/ name \in TwilioTools THEN "ok" ELSE "error"

\* the response of a branch to the outcome of its awaited external call:
\* the try answers with the result, the catch with an error payload
\* ({ error: .. } for the records service, { result: "failed" } for Twilio)
ToolResult(name, outcome) ==
  IF outcome = "ok" THEN "ok"
  ELSE IF name \in TwilioTools THEN "failed" ELSE "error"

\* mutant: the redirect is attempted whether or not a call id was captured
AwaitsWithoutCallSid(name, hasCallSid) ==
  name \in HttpTools \cup TwilioTools

\* whether the branch of fc.name awaits an external collaborator
Awaits(name, hasCallSid) ==
  \/ name \in HttpTools
  \/ name = "send_sms"
  \/ name = "route_to_technician" /\ hasCallSid

\* whether the branch of fc.name answers without awaiting anything:
\* only route_to_technician without a call id; a name that matches no
\* branch of the if/else-if chain falls through with no response
AnswersAtOnce(name) == name = "route_to_technician"

\* for (const fc of ...) from index i up to the next await or the end:
\* the position reached and the responses issued on the way
RECURSIVE RunLoop(_, _, _, _)
RunLoop(calls, i, hasCallSid, t) ==
  IF i > Len(calls) THEN [idx |-> i, st |-> "done", sent |-> <<>>]
  ELSE IF Awaits(calls[i], hasCallSid)
       THEN [idx |-> i, st |-> "await_ext", sent |-> <<>>]
  ELSE LET rest == RunLoop(calls, i + 1, hasCallSid, t)
           now == IF AnswersAtOnce(calls[i])
                  THEN <<[id |-> <<t, i>>, name |-> calls[i], out |-> "none",
                          result |-> "failed"]>>
                  ELSE <<>>
       IN [rest EXCEPT !.sent = now \o rest.sent]

Batches == UNION {[1..n -> ToolNames] : n \in 1..MaxBatch}

\* onmessage with message.toolCall.functionCalls: up to `await sessionPromise`
AIToolCall(s, calls, cap) ==
  /\ ai[s] = "open"
  /\ Len(tasks[s]) < cap
  /\ tasks' = [tasks EXCEPT ![s] =
        Append(@, [calls |-> calls, idx |-> 1, st |-> "await_session"])]
  /\ UNCHANGED <<toolResponses, uncaught>>
  /\ UNCHANGED <<sessVars, closeVars, audioVars, timerVars>>
  /\ UNCHANGED <<promptVars, codec, store, sideVars>>

\* the loop starts once `await sessionPromise` has resumed
TaskResume(s, t) ==
  /\ t \in DOMAIN tasks[s]
  /\ tasks[s][t].st = "await_session"
  /\ LET r == RunLoop(tasks[s][t].calls, 1, streamSid[s], t) IN
       /\ tasks' = [tasks EXCEPT ![s][t].idx = r.idx, ![s][t].st = r.st]
       /\ toolResponses' = [toolResponses EXCEPT ![s] = @ \o r.sent]
  /\ UNCHANGED uncaught
  /\ UNCHANGED <<sessVars, closeVars, audioVars, timerVars>>
  /\ UNCHANGED <<promptVars, codec, store, sideVars>>

\* mutant: the flag is set once create_work_order was attempted
MarksCreatedOnAttempt(name, outcome) == name = "create_work_order"

\* workOrderCreated = true sits after `if (!response.ok) throw` and
\* `await response.json()` of the create_work_order branch
MarksCreated(name, outcome) == name = "create_work_order" /\ outcome = "ok"

\* the awaited external call of the current fc settles: its try or catch
\* sends the response, then the loop goes on
ExtReturn(s, t, outcome) ==
  /\ t \in DOMAIN tasks[s]
  /\ tasks[s][t].st = "await_ext"
  /\ LET i == tasks[s][t].idx
         name == tasks[s][t].calls[i]
         r == RunLoop(tasks[s][t].calls, i + 1, streamSid[s], t) IN
       /\ name \in TwilioTools => outcome # "notok"
       /\ workOrderCreated' = [workOrderCreated EXCEPT ![s] =
             @ \/ MarksCreated(name, outcome)]
       /\ tasks' = [tasks EXCEPT ![s][t].idx = r.idx, ![s][t].st = r.st]
       /\ toolResponses' = [toolResponses EXCEPT ![s] =
             Append(@, [id |-> <<t, i>>, name |-> name,
                        out |-> IF outcome = "ok" THEN "ok" ELSE "failure",
                        result |-> ToolResult(name, outcome)]) \o r.sent]
  /\ UNCHANGED <<pc, phone, sock, handlers, stream, ai, resume, streamSid,
                 transcript, uncaught>>
  /\ UNCHANGED <<closeVars, audioVars, timerVars>>
  /\ UNCHANGED <<promptVars, codec, store, sideVars>>

\* ------------------------------------------------ AI session events

\* onmessage with turnComplete and a non-empty transcription: one push
AITurnComplete(s) ==
  /\ ai[s] = "open"
  /\ transcript[s] < MaxTranscript
  /\ transcript' = [transcript EXCEPT ![s] = @ + 1]
  /\ UNCHANGED <<pc, phone, sock, handlers, stream, ai, resume, streamSid,
                 workOrderCreated, uncaught>>
  /\ UNCHANGED <<toolVars, closeVars, audioVars, timerVars>>
  /\ UNCHANGED <<promptVars, codec, store, sideVars>>

\* onerror: (e) => console.error(..): the error is logged, nothing else
AIError(s) ==
  /\ ai[s] = "open"
  /\ ai' = [ai EXCEPT ![s] = "errored"]
  /\ UNCHANGED <<pc, phone, sock, handlers, stream, resume, streamSid, transcript,
                 workOrderCreated, uncaught>>
  /\ UNCHANGED <<toolVars, closeVars, audioVars, timerVars>>
  /\ UNCHANGED <<promptVars, codec, store, sideVars>>

\* mutant: ws.send writes the frame whatever the state of the socket
WsSendWritesAlways(sk) == TRUE

\* ws.send(data) without a callback, in the ws release that exports
\* WebSocketServer: the frame is written when the socket is open, and
\* dropped without an exception once ws.close() was called or it closed
WsSendWrites(sk) == sk = "open"

\* mutant: an audio chunk is handled only once the tool calls received
\* before it have been answered
AIAudioAfterTools(s) ==
  /\ ai[s] = "open"
  /\ \A t \in DOMAIN tasks[s] : tasks[s][t].st = "done"
  /\ wsSent[s] + wsLost[s] < MaxFrames
  /\ IF WsSendWrites(sock[s])
     THEN wsSent' = [wsSent EXCEPT ![s] = @ + 1] /\ UNCHANGED wsLost
     ELSE wsLost' = [wsLost EXCEPT ![s] = @ + 1] /\ UNCHANGED wsSent
  /\ UNCHANGED <<relayed, uncaught>>
  /\ UNCHANGED <<sessVars, toolVars, closeVars, timerVars>>
  /\ UNCHANGED <<promptVars, codec, store, sideVars>>

\* onmessage with an audio chunk: downsample, encode, ws.send
AIAudio(s) ==
  /\ ai[s] = "open"
  /\ wsSent[s] + wsLost[s] < MaxFrames
  /\ IF WsSendWrites(sock[s])
     THEN wsSent' = [wsSent EXCEPT ![s] = @ + 1] /\ UNCHANGED wsLost
     ELSE wsLost' = [wsLost EXCEPT ![s] = @ + 1] /\ UNCHANGED wsSent
  /\ UNCHANGED <<relayed, uncaught>>
  /\ UNCHANGED <<sessVars, toolVars, closeVars, timerVars>>
  /\ UNCHANGED <<promptVars, codec, store, sideVars>>

\* the k-th audio chunk of the AI session: onmessage downsamples, encodes
\* and calls ws.send before its first await, so before any later message
AudioChunk(s) ==
  /\ ai[s] = "open"
  /\ relay.chunks < MaxChunks
  /\ relay' = [relay EXCEPT
        !.chunks = @ + 1,
        !.toWs = IF WsSendWrites(sock[s]) THEN Append(@, relay.chunks + 1) ELSE @]
  /\ UNCHANGED <<sessVars, toolVars, closeVars, audioVars, timerVars, uncaught,
                 promptVars, codec, store, opened, sms>>

\* ------------------------------------------------ socket messages
\* A message that arrives while no handler is installed has no listener.
\* Frames still arrive between ws.close() and the end of the handshake.

\* case 'start': ws.streamSid, ws.callSid
WsStart(s) ==
  /\ sock[s] \in {"open", "closing"}
  /\ stream[s] = "new"
  /\ stream' = [stream EXCEPT ![s] = "started"]
  /\ streamSid' = [streamSid EXCEPT ![s] = @ \/ handlers[s]]
  /\ UNCHANGED <<pc, phone, sock, handlers, ai, resume, transcript,
                 workOrderCreated, uncaught>>
  /\ UNCHANGED <<toolVars, closeVars, audioVars, timerVars>>
  /\ UNCHANGED <<promptVars, codec, store, sideVars>>

\* case 'media': sessionPromise.then(session => session.sendRealtimeInput(..))
\* runs its callback only for a fulfilled sessionPromise
WsMedia(s) ==
  /\ sock[s] \in {"open", "closing"}
  /\ stream[s] = "started"
  /\ relayed[s] < MaxFrames
  /\ handlers[s]
  /\ ai[s] # "none"
  /\ relayed' = [relayed EXCEPT ![s] = @ + 1]
  /\ UNCHANGED <<wsSent, wsLost, uncaught>>
  /\ UNCHANGED <<sessVars, toolVars, closeVars, timerVars>>
  /\ UNCHANGED <<promptVars, codec, store, sideVars>>

\* mutant: the callback registered last runs first
LastJob(jobs) == Len(jobs)

\* the callbacks registered on one promise run in the order of their
\* registration
NextJob(jobs) == 1

\* case 'media' for the k-th frame: decode, upsample, and register the
\* callback that sends it on sessionPromise
MediaFrame(s) ==
  /\ sock[s] \in {"open", "closing"}
  /\ stream[s] = "started"
  /\ handlers[s]
  /\ ai[s] # "none"
  /\ relay.media < MaxChunks
  /\ relay' = [relay EXCEPT !.media = @ + 1, !.jobs = Append(@, relay.media + 1)]
  /\ UNCHANGED <<sessVars, toolVars, closeVars, audioVars, timerVars, uncaught,
                 promptVars, codec, store, opened, sms>>

\* a callback registered on sessionPromise runs:
\* session.sendRealtimeInput({ media: pcmBlob })
MediaJob(s) ==
  /\ relay.jobs # <<>>
  /\ LET j == NextJob(relay.jobs)
     IN relay' = [relay EXCEPT
           !.jobs = SubSeq(@, 1, j - 1) \o SubSeq(@, j + 1, Len(@)),
           !.toAI = Append(@, relay.jobs[j])]
  /\ UNCHANGED <<sessVars, toolVars, closeVars, audioVars, timerVars, uncaught,
                 promptVars, codec, store, opened, sms>>

\* case 'stop': ws.close()
WsStop(s) ==
  /\ sock[s] \in {"open", "closing"}
  /\ stream[s] = "started"
  /\ stream' = [stream EXCEPT ![s] = "stopped"]
  /\ sock' = [sock EXCEPT ![s] = IF handlers[s] THEN WsClose(@) ELSE @]
  /\ UNCHANGED <<pc, phone, handlers, ai, resume, streamSid, transcript,
                 workOrderCreated, uncaught>>
  /\ UNCHANGED <<toolVars, closeVars, audioVars, timerVars>>
  /\ UNCHANGED <<promptVars, codec, store, sideVars>>

\* a message that is not JSON: JSON.parse throws inside the listener,
\* which has no try/catch
WsMalformed(s) ==
  /\ sock[s] \in {"open", "closing"}
  /\ handlers[s]
  /\ s \notin uncaught
  /\ uncaught' = uncaught \cup {s}
  /\ UNCHANGED <<sessVars, toolVars, closeVars, audioVars, timerVars>>
  /\ UNCHANGED <<promptVars, codec, store, sideVars>>

\* ------------------------------------------------ socket close, recovery

\* the guard of the dropped-call path, read when 'close' is handled
Dropped(s) ==
  ~workOrderCreated[s] /\ transcript[s] > 0 /\ phone[s] # NoPhone

\* the socket closes (peer hang-up, or the end of a started handshake);
\* ws.on('close') runs if installed: geminiSession.close(), then the guard,
\* then the summarization request is awaited
CloseEvent(s) ==
  /\ sock[s] \in {"open", "closing"}
  /\ sock' = [sock EXCEPT ![s] = "closed"]
  /\ IF handlers[s]
     THEN /\ ai' = [ai EXCEPT ![s] = IF @ \in {"open", "errored"} THEN "closed" ELSE @]
          /\ closePc' = [closePc EXCEPT ![s] =
                IF Dropped(s) THEN "summarizing" ELSE "done"]
     ELSE UNCHANGED <<ai, closePc>>
  /\ UNCHANGED <<sumResult, saveResult>>
  /\ UNCHANGED <<pc, phone, handlers, stream, resume, streamSid, transcript,
                 workOrderCreated, uncaught>>
  /\ UNCHANGED <<toolVars, audioVars, timerVars>>
  /\ UNCHANGED <<promptVars, codec, store, sideVars>>

\* generateContent settles; JSON.parse of its text; then the save is awaited.
\* A request error or an unparsable text lands in the catch.
SummarizeReturn(s, ok) ==
  /\ closePc[s] = "summarizing"
  /\ closePc' = [closePc EXCEPT ![s] = IF ok THEN "saving" ELSE "done"]
  /\ sumResult' = [sumResult EXCEPT ![s] = IF ok THEN "ok" ELSE "fail"]
  /\ UNCHANGED <<saveResult, uncaught>>
  /\ UNCHANGED <<sessVars, toolVars, audioVars, timerVars>>
  /\ UNCHANGED <<promptVars, codec, store, sideVars>>

\* mutant: the callback is armed whatever the save answered
ArmAnyway(outcome) == TRUE

\* the timer is armed only past `if (!saveResponse.ok) throw`
SaveArms(outcome) == outcome = "ok"

\* mutant: arming a callback replaces the whole map by the one new entry
ArmCallbackAlone(s) ==
  /\ timers' = [timers EXCEPT ![s] =
        [phone |-> phone[s], st |-> "armed", res |-> "none", call |-> "none"]]
  /\ callbackTimers' = [q \in Phones |-> IF q = phone[s] THEN s ELSE NoTimer]

\* const callbackTimer = setTimeout(..); callbackTimers[phone] = callbackTimer
ArmCallback(s) ==
  /\ timers' = [timers EXCEPT ![s] =
        [phone |-> phone[s], st |-> "armed", res |-> "none", call |-> "none"]]
  /\ callbackTimers' = [callbackTimers EXCEPT ![phone[s]] = s]

\* the status the recovery path writes into the record it posts
SavedStatus == "incomplete"

\* the save request settles
SaveReturn(s, outcome) ==
  /\ closePc[s] = "saving"
  /\ closePc' = [closePc EXCEPT ![s] = "done"]
  /\ records' = [records EXCEPT ![phone[s]] = IF outcome = "ok" THEN SavedStatus ELSE @]
  /\ saveResult' = [saveResult EXCEPT ![s] = outcome]
  /\ IF SaveArms(outcome)
     THEN ArmCallback(s)
     ELSE UNCHANGED <<callbackTimers, timers>>
  /\ UNCHANGED <<sumResult, calledBack, uncaught>>
  /\ UNCHANGED <<sessVars, toolVars, audioVars>>
  /\ UNCHANGED <<promptVars, codec, store, sideVars>>

\* ------------------------------------------------ the callback timer

\* the 4 minutes elapse: the callback starts and awaits the record lookup
TimerFire(h) ==
  /\ timers[h].st = "armed"
  /\ timers' = [timers EXCEPT ![h].st = "fetching"]
  /\ UNCHANGED <<callbackTimers, records, calledBack, uncaught>>
  /\ UNCHANGED <<sessVars, toolVars, closeVars, audioVars>>
  /\ UNCHANGED <<promptVars, codec, store, sideVars>>

\* mutant: the call is placed unless the record is complete
PlacesCallUnlessComplete(outcome) == outcome # "complete"

\* response.ok && workOrder && workOrder.status === 'incomplete'
PlacesCall(outcome) == outcome = "incomplete"

\* mutant: the callback leaves the map as it is
FinallyKeep(h, call) == UNCHANGED callbackTimers

\* mutant: the entry is deleted only after a placed call
FinallyDeleteIfPlaced(h, call) ==
  IF call = "placed"
  THEN callbackTimers' = [callbackTimers EXCEPT ![timers[h].phone] = NoTimer]
  ELSE UNCHANGED callbackTimers

\* finally { delete callbackTimers[customerPhoneNumber]; }
FinallyDelete(h, call) ==
  callbackTimers' = [callbackTimers EXCEPT ![timers[h].phone] = NoTimer]

\* the lookup settles: calls.create is awaited, or the callback ends
TimerLookupReturn(h, outcome) ==
  /\ timers[h].st = "fetching"
  /\ IF PlacesCall(outcome)
     THEN /\ timers' = [timers EXCEPT ![h].st = "placing", ![h].res = outcome,
                                      ![h].call = "requested"]
          /\ UNCHANGED callbackTimers
     ELSE /\ timers' = [timers EXCEPT ![h].st = "done", ![h].res = outcome]
          /\ FinallyDelete(h, "none")
  /\ UNCHANGED <<records, calledBack, uncaught>>
  /\ UNCHANGED <<sessVars, toolVars, closeVars, audioVars>>
  /\ UNCHANGED <<promptVars, codec, store, sideVars>>

\* twilioClient.calls.create settles
TimerCallReturn(h, ok) ==
  /\ timers[h].st = "placing"
  /\ LET call == IF ok THEN "placed" ELSE "threw" IN
       /\ timers' = [timers EXCEPT ![h].st = "done", ![h].call = call]
       /\ FinallyDelete(h, call)
  /\ UNCHANGED <<records, calledBack, uncaught>>
  /\ UNCHANGED <<sessVars, toolVars, closeVars, audioVars>>
  /\ UNCHANGED <<promptVars, codec, store, sideVars>>

\* ------------------------------------------------ prompt construction
\* The text of systemPrompt that wss.on('connection') builds before it
\* opens the AI session, as the sequence of its annotations.

BUSINESS_HOURS == [START |-> 7, END |-> 19, DAYS |-> {1, 2, 3, 4, 5}]

\* the suffixes that are keys of TECH_LINES: '7797', '7794', '7792'
TECH_LINES == {<<7, 7, 9, 7>>, <<7, 7, 9, 4>>, <<7, 7, 9, 2>>}

\* mutant: the window is open on business days or in business hours
isDuringBusinessHoursEither(t) ==
  \/ t.day \in BUSINESS_HOURS.DAYS
  \/ t.hour >= BUSINESS_HOURS.START /\ t.hour < BUSINESS_HOURS.END

\* mutant: the window is still open in the hour that starts at END
isDuringBusinessHoursThroughEnd(t) ==
  /\ t.day \in BUSINESS_HOURS.DAYS
  /\ t.hour >= BUSINESS_HOURS.START /\ t.hour <= BUSINESS_HOURS.END

\* isBusinessDay && isBusinessHour
isDuringBusinessHours(t) ==
  /\ t.day \in BUSINESS_HOURS.DAYS
  /\ t.hour >= BUSINESS_HOURS.START /\ t.hour < BUSINESS_HOURS.END

\* String.prototype.endsWith
EndsWith(str, suffix) ==
  /\ Len(str) >= Len(suffix)
  /\ SubSeq(str, Len(str) - Len(suffix) + 1, Len(str)) = suffix

\* Object.keys(TECH_LINES).some(line => dialedPhoneNumber.endsWith(line))
isTechLine(to) == \E line \in TECH_LINES : EndsWith(to, line)

Note(kind) == [kind |-> kind, lines |-> <<>>]

\* if (dialedPhoneNumber) { .. }: the SYSTEM_NOTE put before the persona
RoutingNote(to, t) ==
  IF to = <<>> THEN <<>>
  ELSE IF isTechLine(to)
       THEN IF isDuringBusinessHours(t) THEN <<Note("tech_during")>>
                                        ELSE <<Note("tech_after")>>
  ELSE <<Note("main_line")>>

\* if (context === 'callback') { .. }
CallbackNote(ctx) == IF ctx = "callback" THEN <<Note("callback")>> ELSE <<>>

\* the entries of a record, in the order of its keys
Entries(rec) == SelectSeq(KeyOrder, LAMBDA k : rec[k] # "absent")

\* a JavaScript value that passes `if (value)`
Truthy(v) == v \notin {"null", ""}

\* mutant: the status line is listed like any other entry
ListedWithStatus(rec, k) == Truthy(rec[k])

\* if (value && key !== 'status')
Listed(rec, k) == Truthy(rec[k]) /\ k # "status"

RECURSIVE LinesOf(_, _)
\* one `- key: value` line for each listed entry, in order
LinesOf(rec, keys) ==
  IF keys = <<>> THEN <<>>
  ELSE (IF Listed(rec, Head(keys)) THEN <<<<Head(keys), rec[Head(keys)]>>>> ELSE <<>>)
       \o LinesOf(rec, Tail(keys))

\* the block of previously gathered information put before the prompt: only
\* for an OK response whose body parses to an object with status 'incomplete'
ResumeNote(resp) ==
  IF resp.kind = "record" /\ resp.rec["status"] = "incomplete"
  THEN <<[kind |-> "resume", lines |-> LinesOf(resp.rec, Entries(resp.rec))]>>
  ELSE <<>>

\* the try block up to the resume lookup: routing note, then callback note
BuildPrompt ==
  /\ promptPc = "start"
  /\ systemPrompt' = CallbackNote(context)
                        \o RoutingNote(dialedPhoneNumber, nowInChicago)
                        \o <<Note("persona")>>
  /\ promptPc' = IF customerPhoneNumber # NoPhone THEN "lookup" ELSE "connect"
  /\ UNCHANGED <<customerPhoneNumber, dialedPhoneNumber, context, nowInChicago,
                 incompleteOrder, codec, store, sideVars>>
  /\ UNCHANGED <<sessVars, toolVars, closeVars, audioVars, timerVars, uncaught>>

\* the resume lookup settles; whatever it answered, ai.live.connect is next
PromptLookupReturn(resp) ==
  /\ promptPc = "lookup"
  /\ incompleteOrder' = resp
  /\ systemPrompt' = ResumeNote(resp) \o systemPrompt
  /\ promptPc' = "connect"
  /\ UNCHANGED <<customerPhoneNumber, dialedPhoneNumber, context, nowInChicago,
                 codec, store, sideVars>>
  /\ UNCHANGED <<sessVars, toolVars, closeVars, audioVars, timerVars, uncaught>>

\* ------------------------------------------------ specifications

\* Spec: two calls and their callbacks; each session gets at most one
\* tool-call message, a single create_work_order
Next ==
  \/ \E s \in Sessions, p \in Phones \cup {NoPhone} : Connect(s, p)
  \/ \E s \in Sessions, o \in LookupOutcomes : LookupReturn(s, o)
  \/ \E s \in Sessions, ok \in BOOLEAN : ConnectReturn(s, ok)
  \/ \E s \in Sessions : AITurnComplete(s)
  \/ \E s \in Sessions : AIToolCall(s, <<"create_work_order">>, 1)
  \/ \E s \in Sessions : \E t \in DOMAIN tasks[s] : TaskResume(s, t)
  \/ \E s \in Sessions : \E t \in DOMAIN tasks[s], o \in HttpOutcomes : ExtReturn(s, t, o)
  \/ \E s \in Sessions : CloseEvent(s)
  \/ \E s \in Sessions, ok \in BOOLEAN : SummarizeReturn(s, ok)
  \/ \E s \in Sessions, o \in HttpOutcomes : SaveReturn(s, o)
  \/ \E h \in Sessions : TimerFire(h)
  \/ \E h \in Sessions, o \in LookupOutcomes : TimerLookupReturn(h, o)
  \/ \E h \in Sessions, ok \in BOOLEAN : TimerCallReturn(h, ok)

Spec == Init /\ [][Next]_vars

\* GatewaySpec: one call without a caller number (so without recovery),
\* with its audio, its control messages and one tool-call message of up to
\* MaxBatch calls of any name
NextGateway ==
  \/ Connect(1, NoPhone)
  \/ \E ok \in BOOLEAN : ConnectReturn(1, ok)
  \/ AITurnComplete(1)
  \/ AIAudio(1)
  \/ \E calls \in Batches : AIToolCall(1, calls, 1)
  \/ \E t \in DOMAIN tasks[1] : TaskResume(1, t)
  \/ \E t \in DOMAIN tasks[1], o \in HttpOutcomes : ExtReturn(1, t, o)
  \/ WsStart(1)
  \/ WsMedia(1)
  \/ WsStop(1)
  \/ WsMalformed(1)
  \/ CloseEvent(1)

GatewaySpec == Init /\ [][NextGateway]_vars

\* RelaySpec: the audio of one call frame by frame, in both directions,
\* beside one tool call of any name
NextRelay ==
  \/ Connect(1, NoPhone)
  \/ \E ok \in BOOLEAN : ConnectReturn(1, ok)
  \/ WsStart(1)
  \/ MediaFrame(1)
  \/ MediaJob(1)
  \/ AudioChunk(1)
  \/ \E name \in ToolNames : AIToolCall(1, <<name>>, 1)
  \/ \E t \in DOMAIN tasks[1] : TaskResume(1, t)
  \/ \E t \in DOMAIN tasks[1], o \in HttpOutcomes : ExtReturn(1, t, o)
  \/ CloseEvent(1)

RelaySpec == Init /\ [][NextRelay]_vars

\* CallbackSpec: two sessions of which the second can be the answered
\* callback of the first; no tool calls
NextCallback ==
  \/ \E s \in Sessions, p \in Phones : Connect(s, p)
  \/ \E s, h \in Sessions : OutboundConnect(s, h)
  \/ \E s \in Sessions, o \in LookupOutcomes : LookupReturn(s, o)
  \/ \E s \in Sessions, ok \in BOOLEAN : ConnectReturn(s, ok)
  \/ \E s \in Sessions : AITurnComplete(s)
  \/ \E s \in Sessions : CloseEvent(s)
  \/ \E s \in Sessions, ok \in BOOLEAN : SummarizeReturn(s, ok)
  \/ \E s \in Sessions, o \in HttpOutcomes : SaveReturn(s, o)
  \/ \E h \in Sessions : TimerFire(h)
  \/ \E h \in Sessions, o \in LookupOutcomes : TimerLookupReturn(h, o)
  \/ \E h \in Sessions, ok \in BOOLEAN : TimerCallReturn(h, ok)

CallbackSpec == Init /\ [][NextCallback]_vars

\* PromptSpec: the prompt of one connection, for every dialed number, time
\* of the week, caller number and lookup response
NextPrompt ==
  \/ BuildPrompt
  \/ \E resp \in LookupResponses : PromptLookupReturn(resp)

PromptSpec == InitPrompt /\ [][NextPrompt]_vars

\* FairSpec: Spec, where every timer that stays armed fires and the
\* requests its callback awaits settle
FairSpec ==
  /\ Spec
  /\ \A h \in Sessions :
       /\ WF_vars(TimerFire(h))
       /\ WF_vars(\E o \in LookupOutcomes : TimerLookupReturn(h, o))
       /\ WF_vars(\E ok \in BOOLEAN : TimerCallReturn(h, ok))

\* DispatchSpec: the tool calls of one call without a caller number: one
\* tool-call message of up to MaxBatch calls of any name, before or after
\* the start message, each awaited call ending in any way
NextDispatch ==
  \/ Connect(1, NoPhone)
  \/ \E ok \in BOOLEAN : ConnectReturn(1, ok)
  \/ WsStart(1)
  \/ \E calls \in Batches : AIToolCall(1, calls, 1)
  \/ \E t \in DOMAIN tasks[1] : TaskResume(1, t)
  \/ \E t \in DOMAIN tasks[1], o \in HttpOutcomes : ExtReturn(1, t, o)
  \/ CloseEvent(1)

DispatchSpec == Init /\ [][NextDispatch]_vars

\* ConcurrentSpec: one call without a caller number whose AI session sends
\* up to two tool-call messages of one call each, while audio goes both ways
NextConcurrent ==
  \/ Connect(1, NoPhone)
  \/ \E ok \in BOOLEAN : ConnectReturn(1, ok)
  \/ WsStart(1)
  \/ WsMedia(1)
  \/ AIAudio(1)
  \/ \E name \in ToolNames : AIToolCall(1, <<name>>, 2)
  \/ \E t \in DOMAIN tasks[1] : TaskResume(1, t)
  \/ \E t \in DOMAIN tasks[1], o \in HttpOutcomes : ExtReturn(1, t, o)
  \/ CloseEvent(1)

ConcurrentSpec == Init /\ [][NextConcurrent]_vars

\* StreamSpec: the audio and control traffic of one call without a caller
\* number, with the errors of its AI session and without tool calls
NextStream ==
  \/ Connect(1, NoPhone)
  \/ \E ok \in BOOLEAN : ConnectReturn(1, ok)
  \/ AITurnComplete(1)
  \/ AIAudio(1)
  \/ AIError(1)
  \/ WsStart(1)
  \/ WsMedia(1)
  \/ WsStop(1)
  \/ WsMalformed(1)
  \/ CloseEvent(1)

StreamSpec == Init /\ [][NextStream]_vars

\* the closing handshake the gateway started with ws.close() completes
HandshakeEnds(s) == sock[s] = "closing" /\ CloseEvent(s)

\* FairStreamSpec: StreamSpec, where the awaited open of the AI session
\* settles and a closing handshake that was started ends; what the caller
\* and the AI engine send, and when the caller hangs up, is left to them
FairStreamSpec ==
  /\ StreamSpec
  /\ WF_vars(\E ok \in BOOLEAN : ConnectReturn(1, ok))
  /\ WF_vars(HandshakeEnds(1))

\* ------------------------------------------- audio conversion utilities

\* the longest frame given to the resamplers, in samples
MaxSamples == 7

BIAS == 132
MAX_VAL == 32635

\* a & b of two non-negative integers
RECURSIVE BitAnd(_, _)
BitAnd(a, b) ==
  IF a = 0 \/ b = 0 THEN 0
  ELSE (a % 2) * (b % 2) + 2 * BitAnd(a \div 2, b \div 2)

\* a | b of two non-negative integers
RECURSIVE BitOr(_, _)
BitOr(a, b) ==
  IF a = 0 THEN b
  ELSE IF b = 0 THEN a
  ELSE (IF a % 2 = 1 \/ b % 2 = 1 THEN 1 ELSE 0) + 2 * BitOr(a \div 2, b \div 2)

\* v & mask for a mask below 256 and any 32-bit v: the low byte of the
\* two's complement of v decides
LowAnd(v, mask) == BitAnd(v % 256, mask)

\* v << 1 on 32-bit integers: bit 30 becomes the sign bit
ShiftLeftOne(v) ==
  LET low == v % (2^30)
      top == (v \div (2^30)) % 2
  IN IF top = 1 THEN ((2 * low) - 2^30) - 2^30 ELSE 2 * low

RECURSIVE ShiftLeftBy(_, _)
ShiftLeftBy(v, n) == IF n = 0 THEN v ELSE ShiftLeftBy(ShiftLeftOne(v), n - 1)

\* v << n: the shift count is taken modulo 32
ShiftLeft(v, n) == ShiftLeftBy(v, n % 32)

\* what a store into an Int16Array keeps of a number
ToInt16(v) == ((v + 32768) % 65536) - 32768

\* what a store into a Uint8Array keeps of a number
ToUint8(v) == v % 256

\* new Int16Array(buffer, byteOffset, length / 2): the samples of a byte
\* buffer, two bytes each, low byte first; an odd last byte is left out
Int16View(bytes) ==
  [k \in 1..(Len(bytes) \div 2) |-> ToInt16(bytes[2 * k - 1] + 256 * bytes[2 * k])]

\* new Uint8Array(samples.buffer): the bytes of an Int16Array
Uint8View(samples) ==
  [j \in 1..(2 * Len(samples)) |->
     IF j % 2 = 1 THEN samples[(j + 1) \div 2] % 256
     ELSE (samples[j \div 2] % 65536) \div 256]

\* sample = ~sample; sign, exponent, mantissa; value = (mantissa << 3) +
\* 0x84; value <<= (exponent - 1); sign ? -value : value
DecodeByte(byte) ==
  LET sample == (0 - byte) - 1
      sign == LowAnd(sample, 128)
      exponent == LowAnd(sample \div 16, 7)
      mantissa == LowAnd(sample, 15)
      value == ShiftLeft(mantissa * 8 + 132, exponent - 1)
  IN ToInt16(IF sign # 0 THEN 0 - value ELSE value)

mulawDecode(mulaw) == [i \in 1..Len(mulaw) |-> DecodeByte(mulaw[i])]

\* (sample >> 8) & 0x80
SignOf(sample) == LowAnd(sample \div 256, 128)

\* mutant: the magnitude is not clipped
NoClip(sample) == sample

\* if (sample > MAX_VAL) sample = MAX_VAL
Clip(sample) == IF sample > MAX_VAL THEN MAX_VAL ELSE sample

\* mutant: the clipped magnitude without the bias
Unbiased(pcm) ==
  Clip(IF SignOf(pcm) # 0 THEN 0 - pcm ELSE pcm)

\* if (sign) sample = -sample; clip; sample += BIAS
Biased(pcm) ==
  Clip(IF SignOf(pcm) # 0 THEN 0 - pcm ELSE pcm) + BIAS

\* for (expMask = 0x4000; (sample & expMask) === 0; exponent--, expMask >>= 1) {}
\* once the mask is 0 the condition stays true and the loop never ends: the
\* search stops there with the negative exponent it has reached
RECURSIVE ExponentLoop(_, _, _)
ExponentLoop(sample, exponent, expMask) ==
  IF expMask = 0 THEN exponent
  ELSE IF BitAnd(sample, expMask) = 0
  THEN ExponentLoop(sample, exponent - 1, expMask \div 2)
  ELSE exponent

ExponentOf(sample) == ExponentLoop(sample, 7, 16384)

\* mantissa = (sample >> (exponent + 3)) & 0x0F;
\* mulaw[i] = ~(sign | (exponent << 4) | mantissa); no byte (-1) is written
\* by a search that does not end
EncodeSample(pcm) ==
  LET sample == Biased(pcm)
      exponent == ExponentOf(sample)
      mantissa == BitAnd(sample \div (2^(exponent + 3)), 15)
      value == BitOr(SignOf(pcm), BitOr(exponent * 16, mantissa))
  IN IF exponent < 0 THEN 0 - 1 ELSE ToUint8((0 - value) - 1)

mulawEncode(pcm) == [i \in 1..Len(pcm) |-> EncodeSample(pcm[i])]

\* for (let i = 0; i < input.length; i += 3) output[outputIndex++] =
\* input[i]: a write past the end of the typed array is ignored
RECURSIVE DecimateLoop(_, _, _, _)
DecimateLoop(input, output, i, outputIndex) ==
  IF i >= Len(input) THEN output
  ELSE DecimateLoop(input,
                    IF outputIndex < Len(output)
                    THEN [output EXCEPT ![outputIndex + 1] = input[i + 1]]
                    ELSE output,
                    i + 3, outputIndex + 1)

\* mutant: the last sample of every three is kept
downsampleLastOfThree(buffer) ==
  LET input == Int16View(buffer)
  IN Uint8View([k \in 1..(Len(input) \div 3) |-> input[3 * k]])

downsample24kTo8k(buffer) ==
  LET input == Int16View(buffer)
      output == [k \in 1..(Len(input) \div 3) |-> 0]
  IN Uint8View(DecimateLoop(input, output, 0, 0))

\* pcm16k[i * 2] = sample; pcm16k[i * 2 + 1] = sample
upsample8kTo16k(pcm8k) ==
  [j \in 1..(2 * Len(pcm8k)) |-> pcm8k[(j + 1) \div 2]]

\* frames of n samples: a ramp 1, 2, .., n and a ramp of both signs that
\* fills both bytes of a sample
Ramps ==
  {[i \in 1..n |-> i] : n \in 0..MaxSamples}
  \cup {[i \in 1..n |-> 300 * i - 1000] : n \in 0..MaxSamples}
  \cup {<<10, 0 - 10>>}

\* the byte buffers of the AI session's audio: whole samples, or with an
\* odd byte at the end
Buffers ==
  {Uint8View(f) : f \in Ramps} \cup {Uint8View(f) \o <<1>> : f \in Ramps}

\* the payloads of the provider's media frames
Payloads ==
  {<<b>> : b \in 0..255} \cup {<<>>, <<255, 0, 127, 128>>}

\* a conversion starts: a sample to compand and expand again, a payload of
\* the inbound relay, a buffer of the outbound relay, or a frame to upsample
InitAudio ==
  \/ \E x \in (0 - 32768)..32767 :
        codec = [NoAudio EXCEPT !.pc = "encode", !.path = "roundtrip", !.pcm8k = <<x>>]
  \/ \E m \in Payloads :
        codec = [NoAudio EXCEPT !.pc = "decode", !.path = "inbound", !.mulaw = m]
  \/ \E b \in Buffers :
        codec = [NoAudio EXCEPT !.pc = "downsample", !.path = "outbound", !.pcm24k = b]
  \/ \E f \in Ramps :
        codec = [NoAudio EXCEPT !.pc = "upsample", !.path = "upsample", !.decoded = f]

InitCodec == InitSessions /\ PromptOff /\ StoreEmpty /\ SideOff /\ InitAudio

\* const pcm8k = downsample24kTo8k(pcm24k); new Int16Array(pcm8k.buffer)
Downsample ==
  /\ codec.pc = "downsample"
  /\ codec' = [codec EXCEPT !.pc = "encode",
                            !.pcm8k = Int16View(downsample24kTo8k(codec.pcm24k))]
  /\ UNCHANGED <<sessVars, toolVars, closeVars, audioVars, timerVars, uncaught,
                 promptVars, store, sideVars>>

\* const mulaw = mulawEncode(..)
Encode ==
  /\ codec.pc = "encode"
  /\ codec' = [codec EXCEPT
        !.pc = IF codec.path = "roundtrip" THEN "decode" ELSE "done",
        !.mulaw = mulawEncode(codec.pcm8k),
        !.biased = [i \in 1..Len(codec.pcm8k) |-> Biased(codec.pcm8k[i])]]
  /\ UNCHANGED <<sessVars, toolVars, closeVars, audioVars, timerVars, uncaught,
                 promptVars, store, sideVars>>

\* const pcm8k = mulawDecode(mulaw)
Decode ==
  /\ codec.pc = "decode"
  /\ codec' = [codec EXCEPT
        !.pc = IF codec.path = "inbound" THEN "upsample" ELSE "done",
        !.decoded = mulawDecode(codec.mulaw)]
  /\ UNCHANGED <<sessVars, toolVars, closeVars, audioVars, timerVars, uncaught,
                 promptVars, store, sideVars>>

\* const pcm16k = upsample8kTo16k(pcm8k)
Upsample ==
  /\ codec.pc = "upsample"
  /\ codec' = [codec EXCEPT !.pc = "done", !.pcm16k = upsample8kTo16k(codec.decoded)]
  /\ UNCHANGED <<sessVars, toolVars, closeVars, audioVars, timerVars, uncaught,
                 promptVars, store, sideVars>>

NextCodec == Downsample \/ Encode \/ Decode \/ Upsample

\* CodecSpec: each utility applied to its inputs, alone and in the order
\* of the two relays
CodecSpec == InitCodec /\ [][NextCodec]_vars

\* --------------------------------------------------- the record store

\* the create requests the store serves in a run
MaxCreates == 2

\* the objects, arrays and null the summarization's text can parse to
Extractions ==
  [shape : {"object"}, phone : {"absent", "null", "P", "Q"},
   status : {"absent", "complete", "incomplete"},
   lastName : {"absent", "text", "number"}]
  \cup [shape : {"array", "null"}, phone : {"absent"}, status : {"absent"},
        lastName : {"absent"}]

\* the JSON bodies other clients post to /api/create-workorder
ClientBodies ==
  [shape : {"object"}, phone : {"absent", "P", "Q"}, status : {"absent", "complete"},
   lastName : {"absent", "text", "number"}]

\* mutant: the caller's number and the status fill in only what the
\* summarization left out
OverrideIfAbsent(e, caller) ==
  IF e.shape = "object"
  THEN [e EXCEPT !.phone = IF @ \in {"absent", "null"} THEN caller ELSE @,
                 !.status = IF @ = "absent" THEN "incomplete" ELSE @]
  ELSE e

\* extractedData.phone = customerPhoneNumber; extractedData.status =
\* 'incomplete'; JSON.stringify(extractedData): the two named properties
\* set on an array are not part of its JSON text
Override(e, caller) ==
  IF e.shape = "object"
  THEN [e EXCEPT !.phone = caller, !.status = "incomplete"]
  ELSE e

\* the recovery path of a call of `caller` posts the overridden extraction;
\* setting a property of null throws, and the catch ends the path
PostSave(caller, e) ==
  /\ store.pc = "idle"
  /\ store' = [store EXCEPT
        !.pc = IF e.shape = "null" THEN "idle" ELSE "posted",
        !.request = [caller |-> caller, extracted |-> e,
                     body |-> IF e.shape = "null" THEN NoExtraction
                              ELSE Override(e, caller)]]
  /\ UNCHANGED <<sessVars, toolVars, closeVars, audioVars, timerVars, uncaught,
                 promptVars, codec, sideVars>>

\* a client posts a body to /api/create-workorder
PostCreate(b) ==
  /\ store.pc = "idle"
  /\ store' = [store EXCEPT
        !.pc = "posted",
        !.request = [caller |-> NoPhone, extracted |-> NoExtraction, body |-> b]]
  /\ UNCHANGED <<sessVars, toolVars, closeVars, audioVars, timerVars, uncaught,
                 promptVars, codec, sideVars>>

\* generateTrackingCode: lastName?.toUpperCase() of a last name that is
\* not a string throws
TrackingCodeThrows(b) == b.lastName = "number"

\* params.phone || ''
PhoneCell(b) == IF b.phone \in {"absent", "null"} THEN "" ELSE b.phone

\* the row of values.append: its date, its phone cell, and 'Pending' in its
\* last cell whatever params.status is
SheetRow(b, date) ==
  [kind |-> "record", created |-> date, phone |-> PhoneCell(b), status |-> "Pending"]

\* return { success: true, .. } follows the inner try/catch around the
\* append, which swallows its error, and `if (sheets)`
ReportsSuccess(b, sheetsOutcome) == ~TrackingCodeThrows(b)

\* createWorkorder serves the posted body: sheetsOutcome is what the append
\* does ("absent": the sheets client is not connected)
CreateWorkorder(sheetsOutcome) ==
  /\ store.pc = "posted"
  /\ store.clock < MaxCreates
  /\ LET b == store.request.body
         appends == ~TrackingCodeThrows(b) /\ sheetsOutcome = "ok"
     IN store' = [store EXCEPT
           !.pc = "idle",
           !.clock = @ + 1,
           !.sheet = IF appends THEN Append(@, SheetRow(b, store.clock + 1)) ELSE @,
           !.result = [success |-> ReportsSuccess(b, sheetsOutcome),
                       appended |-> appends, threw |-> FALSE]]
  /\ UNCHANGED <<sessVars, toolVars, closeVars, audioVars, timerVars, uncaught,
                 promptVars, codec, sideVars>>

\* for (const row of rows) if (phone && row[4] === phone) return ..: the
\* first matching row
FirstMatch(rows, p) ==
  LET hits == {i \in DOMAIN rows : rows[i].phone = p}
  IN IF hits = {} THEN NoRow
     ELSE rows[CHOOSE i \in hits : \A j \in hits : i <= j]

\* POST /api/lookup-workorder by phone: status is row[15] || 'Pending' of a
\* row read from columns A:O
LookupWorkorder(p, sheetsUp) ==
  /\ store.pc = "idle"
  /\ store' = [store EXCEPT
        !.found = IF ~sheetsUp THEN [NoRow EXCEPT !.kind = "error"]
                  ELSE LET row == FirstMatch(store.sheet, p)
                       IN IF row = NoRow THEN [NoRow EXCEPT !.kind = "notfound"]
                          ELSE [row EXCEPT !.status = "Pending"]]
  /\ UNCHANGED <<sessVars, toolVars, closeVars, audioVars, timerVars, uncaught,
                 promptVars, codec, sideVars>>

InitStore ==
  /\ InitSessions /\ PromptOff /\ CodecOff /\ SideOff
  /\ store = [EmptyStore EXCEPT !.pc = "idle"]

NextStore ==
  \/ \E caller \in Phones, e \in Extractions : PostSave(caller, e)
  \/ \E b \in ClientBodies : PostCreate(b)
  \/ \E o \in {"ok", "throws", "absent"} : CreateWorkorder(o)
  \/ \E p \in Phones, up \in BOOLEAN : LookupWorkorder(p, up)

\* StoreSpec: the recovery path and other clients post records to the
\* store, which appends them to the sheet and answers lookups by phone
StoreSpec == InitStore /\ [][NextStore]_vars

\* ------------------------------------------------ the text conversation

\* the keys of endpointMap
SmsEndpoints ==
  {"send_sms", "create_work_order", "get_zipcode_for_address", "lookup_work_order"}

\* how the request of a mapped tool ends: an OK response with a JSON body,
\* an OK response whose body does not parse, a response that is not OK, a
\* rejected fetch
SmsOutcomes == {"ok", "badjson", "notok", "throws"}

\* the function calls the chat's answer can carry: up to MaxBatch names
SmsBatches == UNION {[1..n -> ToolNames] : n \in 0..MaxBatch}

\* mutant: a tool without an endpoint is rethrown to the caller
UnknownToolThrows(name, outcome) == name \notin SmsEndpoints

\* handleSmsToolCall: every throw of its body is inside its try
SmsToolThrows(name, outcome) == FALSE

\* functionResponsePayload: the parsed body, or { error: error.message }
SmsPayload(name, outcome) ==
  IF name \in SmsEndpoints /\ outcome = "ok" THEN "json" ELSE "error"

\* a text message arrives
SmsArrives ==
  /\ sms.pc = "off"
  /\ sms' = [sms EXCEPT !.pc = "chat"]
  /\ UNCHANGED <<sessVars, toolVars, closeVars, audioVars, timerVars, uncaught,
                 promptVars, codec, store, opened, relay>>

\* chat.sendMessageStream({ message: body }) and its chunks: function calls
\* are collected, or the stream throws into the catch
SmsChatReturn(ok, calls) ==
  /\ sms.pc = "chat"
  /\ sms' = IF ~ok THEN [sms EXCEPT !.pc = "done", !.reply = "sorry"]
            ELSE IF calls = <<>> THEN [sms EXCEPT !.pc = "done", !.reply = "text"]
            ELSE [sms EXCEPT !.pc = "tools", !.functionCalls = calls]
  /\ UNCHANGED <<sessVars, toolVars, closeVars, audioVars, timerVars, uncaught,
                 promptVars, codec, store, opened, relay>>

\* const result = await handleSmsToolCall(fc); toolResults.push(result): the
\* next call of the batch ends with `outcome`; after the last one the
\* results are handed to chat.sendMessageStream({ parts: toolResults })
SmsToolReturn(outcome) ==
  /\ sms.pc = "tools"
  /\ LET i == Len(sms.toolResults) + 1
         name == sms.functionCalls[i]
     IN /\ name \notin SmsEndpoints => outcome = "throws"
        /\ sms' =
             IF SmsToolThrows(name, outcome)
             THEN [sms EXCEPT !.pc = "done", !.threw = TRUE, !.reply = "sorry"]
             ELSE LET results == Append(sms.toolResults,
                                        [name |-> name, response |-> SmsPayload(name, outcome)])
                  IN IF i = Len(sms.functionCalls)
                     THEN [sms EXCEPT !.pc = "results", !.toolResults = results,
                                      !.parts = results]
                     ELSE [sms EXCEPT !.toolResults = results]
  /\ UNCHANGED <<sessVars, toolVars, closeVars, audioVars, timerVars, uncaught,
                 promptVars, codec, store, opened, relay>>

\* the chat answers the tool results, or throws into the catch
SmsResultsReturn(ok) ==
  /\ sms.pc = "results"
  /\ sms' = [sms EXCEPT !.pc = "done", !.reply = IF ok THEN "text" ELSE "sorry"]
  /\ UNCHANGED <<sessVars, toolVars, closeVars, audioVars, timerVars, uncaught,
                 promptVars, codec, store, opened, relay>>

NextSms ==
  \/ SmsArrives
  \/ \E ok \in BOOLEAN, calls \in SmsBatches : SmsChatReturn(ok, calls)
  \/ \E o \in SmsOutcomes : SmsToolReturn(o)
  \/ \E ok \in BOOLEAN : SmsResultsReturn(ok)

\* SmsSpec: one text message, the tool calls its answer asks for and the
\* reply
SmsSpec == Init /\ [][NextSms]_vars

\* ------------------------------------------------ properties

\* number of responses issued with a given id
Answers(s, id) ==
  Cardinality({k \in DOMAIN toolResponses[s] : toolResponses[s][k].id = id})

\* a work order was created in the session: a create_work_order got an OK
WorkOrderDone(s) ==
  \E k \in DOMAIN toolResponses[s] :
     /\ toolResponses[s][k].name = "create_work_order"
     /\ toolResponses[s][k].result = "ok"

Pending(p) == {h \in Sessions : timers[h].st = "armed" /\ timers[h].phone = p}

\* C1: every function call of a tool-call message is answered by exactly one
\* sendToolResponse with its id: never two, and one for each call once the
\* loop over the message has ended.
C1_ExactlyOneResponse ==
  \A s \in Sessions : \A t \in DOMAIN tasks[s] :
    \A i \in DOMAIN tasks[s][t].calls :
       /\ Answers(s, <<t, i>>) <= 1
       /\ tasks[s][t].st = "done" => Answers(s, <<t, i>>) = 1

\* C2: for every phone number at most one timer is armed (neither fired nor
\* cancelled) at any time.
C2_AtMostOnePending ==
  \A p \in Phones : Cardinality(Pending(p)) <= 1

\* C3: when the number called in again after a drop and before the callback
\* of that drop fired, no outbound call is placed by that callback.
C3_NoCallAfterCallBack ==
  \A h \in Sessions : calledBack[h] => timers[h].call # "placed"

\* C4: in the step in which a session starts, the pending callback of its
\* number is disarmed and removed from the map, and the step ends before the
\* resume lookup has returned and before the AI session is opened.
C4_CancelIsFirstAction ==
  [][\A s \in Sessions :
       (pc[s] = "idle" /\ pc'[s] # "idle") =>
          /\ pc'[s] \in {"lookup", "connecting"}
          /\ ai'[s] = "none" /\ ~handlers'[s]
          /\ phone'[s] # NoPhone =>
               /\ callbackTimers'[phone'[s]] = NoTimer
               /\ callbackTimers[phone'[s]] # NoTimer =>
                    timers'[callbackTimers[phone'[s]]].st # "armed"]_vars

C4_Witness ==
  \E s, h \in Sessions :
     /\ pc[s] = "lookup" /\ timers[h].st = "cancelled"
     /\ timers[h].phone = phone[s] /\ callbackTimers[phone[s]] = NoTimer

C6_NoRecoveryAfterWorkOrder ==
  \A s \in Sessions :
     (WorkOrderDone(s) \/ transcript[s] = 0) =>
        (saveResult[s] # "ok" /\ timers[s].st = "none")

C8_FiresOnceThenRemoved ==
  /\ [][\A h \in Sessions :
          /\ timers'[h].st = "fetching" => timers[h].st \in {"armed", "fetching"}
          /\ timers[h].st \in {"cancelled", "done"} => timers'[h].st = timers[h].st]_vars
  /\ [](\A h \in Sessions :
          timers[h].st = "done" => callbackTimers[timers[h].phone] # h)
  /\ \A h \in Sessions :
       (timers[h].st = "armed") ~> (timers[h].st \in {"cancelled", "done"})

C8_Witness ==
  \E h, k \in Sessions :
     /\ timers[h].st = "done" /\ timers[h].call = "threw"
     /\ timers[k].st = "done" /\ timers[k].res = "notok"
     /\ timers[h].phone # timers[k].phone

\* C9: a failed summarization or a failed save ends the close handler in
\* the same step, which arms no timer and leaves the map as it was.
C9_FailedRecoveryArmsNothing ==
  [][\A s \in Sessions :
       ( \/ closePc[s] = "summarizing" /\ sumResult'[s] = "fail"
         \/ closePc[s] = "saving" /\ saveResult'[s] \in {"notok", "throws"} )
       => /\ closePc'[s] = "done"
          /\ callbackTimers' = callbackTimers
          /\ timers' = timers]_vars

C9_Witness ==
  \E s, h \in Sessions :
     /\ closePc[s] = "done" /\ saveResult[s] = "notok"
     /\ timers[s].st = "none"
     /\ callbackTimers[phone[s]] = h /\ timers[h].st = "armed"

\* C10: after a failed open of the AI session the socket is closing or
\* closed, no inbound frame was relayed, the start message was not
\* processed and the close handler never ran.
C10_FailedOpenIsFatal ==
  \A s \in Sessions :
     pc[s] = "failed" =>
        /\ sock[s] \in {"closing", "closed"}
        /\ relayed[s] = 0 /\ ~streamSid[s]
        /\ closePc[s] = "none" /\ ai[s] = "none"

C10_Witness ==
  \E s \in Sessions :
     pc[s] = "failed" /\ sock[s] = "closed" /\ stream[s] = "stopped"

\* C11: once the AI session of a call whose socket is open has reported an
\* error after it was opened, the socket eventually closes and its close
\* handler runs (the closing path on which the recovery is evaluated).
C11_AIErrorClosesSocket ==
  \A s \in Sessions :
     (ai[s] = "errored" /\ sock[s] = "open")
        ~> (sock[s] = "closed" /\ closePc[s] # "none")

\* C12: a call whose socket has closed has no AI session that is still
\* open, whenever the socket closed.
C12_NoSessionOutlivesSocket ==
  \A s \in Sessions : sock[s] = "closed" => ai[s] \in {"none", "closed"}

C14_RelayOnlyWhileStreaming ==
  [][\A s \in Sessions :
       relayed'[s] > relayed[s] =>
          (ai[s] = "open" /\ streamSid[s] /\ sock[s] = "open")]_vars

\* C15: once the start message has arrived and the handlers are installed,
\* the stream id and call id are captured; and every outbound frame written
\* after the start message arrived is written with the stream id captured.
C15_FramesCarryStreamSid ==
  [][\A s \in Sessions :
       /\ (handlers'[s] /\ stream'[s] # "new") => streamSid'[s]
       /\ (wsSent'[s] > wsSent[s] /\ stream[s] # "new") => streamSid[s]]_vars

\* C16: no message from the telephony side makes an exception escape the
\* message handler.
C16_MalformedIsDropped ==
  uncaught = {}

\* C17: when the awaited external call of one of the five voice tools
\* settles, the step answers that request (with an error or failed result
\* when the call failed), lets no exception escape, leaves the socket and
\* the AI session as they were and goes on with the rest of the batch; and
\* when the loop has ended every call of the five tools has its answer.
C17_FailureBecomesResult ==
  /\ [][\A s \in Sessions : \A t \in DOMAIN tasks[s] :
          (tasks[s][t].st = "await_ext" /\ tasks'[s][t] # tasks[s][t]) =>
             LET i == tasks[s][t].idx
                 k == Len(toolResponses[s]) + 1 IN
               /\ Len(toolResponses'[s]) >= k
               /\ toolResponses'[s][k].id = <<t, i>>
               /\ toolResponses'[s][k].out = "failure"
                     => toolResponses'[s][k].result \in {"error", "failed"}
               /\ uncaught' = uncaught
               /\ sock'[s] = sock[s] /\ ai'[s] = ai[s]
               /\ tasks'[s][t].idx > i]_vars
  /\ [](\A s \in Sessions : \A t \in DOMAIN tasks[s] :
          tasks[s][t].st = "done" =>
             \A i \in DOMAIN tasks[s][t].calls :
                tasks[s][t].calls[i] \in HttpTools \cup TwilioTools
                   => Answers(s, <<t, i>>) = 1)

C17_Witness ==
  \E s \in Sessions : \E t \in DOMAIN tasks[s] :
     /\ tasks[s][t].st = "done" /\ Len(tasks[s][t].calls) = 2
     /\ sock[s] = "open" /\ ai[s] = "open" /\ uncaught = {}
     /\ \E j, k \in DOMAIN toolResponses[s] :
           /\ j < k
           /\ toolResponses[s][j].id = <<t, 1>>
           /\ toolResponses[s][j].out = "failure"
           /\ toolResponses[s][j].name = "send_sms"
           /\ toolResponses[s][j].result = "failed"
           /\ toolResponses[s][k].id = <<t, 2>>
           /\ toolResponses[s][k].out = "ok"

\* C18: a redirect is awaited only in a session that has captured a call
\* id; a route_to_technician reached without one is answered in that step
\* with a failed result for its id, and nothing is awaited for it.
C18_RouteNeedsCallSid ==
  /\ [](\A s \in Sessions : \A t \in DOMAIN tasks[s] :
          ( /\ tasks[s][t].st = "await_ext"
            /\ tasks[s][t].calls[tasks[s][t].idx] = "route_to_technician" )
          => streamSid[s])
  /\ [](\A s \in Sessions : \A t \in DOMAIN tasks[s] :
          \A i \in DOMAIN tasks[s][t].calls :
             ( /\ tasks[s][t].calls[i] = "route_to_technician"
               /\ ~streamSid[s]
               /\ tasks[s][t].st # "await_session"
               /\ tasks[s][t].idx > i )
             => \E k \in DOMAIN toolResponses[s] :
                   /\ toolResponses[s][k].id = <<t, i>>
                   /\ toolResponses[s][k].result = "failed"
                   /\ toolResponses[s][k].out = "none")

C18_Witness ==
  \E s \in Sessions : \E t \in DOMAIN tasks[s] :
     /\ ~streamSid[s] /\ tasks[s][t].st = "done"
     /\ tasks[s][t].calls = <<"route_to_technician", "route_to_technician">>
     /\ Answers(s, <<t, 1>>) = 1 /\ Answers(s, <<t, 2>>) = 1

\* the routing annotations of a prompt, in text order
RoutingNotes(sp) ==
  SelectSeq(sp, LAMBDA n : n.kind \in {"tech_during", "tech_after", "main_line"})

\* C19: the prompt built for a dialed number carries exactly one routing
\* annotation: for a number ending in 7797, 7794 or 7792 the during-hours
\* text on Monday to Friday from 7 up to but not including 19 o'clock and the
\* after-hours text at any other time (so on Tuesday at 20), and for any
\* other number the main-line text at any time.
C19_OneRoutingAnnotation ==
  (promptPc \in {"lookup", "connect"} /\ dialedPhoneNumber # <<>>) =>
     LET notes == RoutingNotes(systemPrompt)
         to == dialedPhoneNumber
         tech == \E n \in 1..Len(to) :
                    SubSeq(to, n, Len(to)) \in {<<7, 7, 9, 7>>, <<7, 7, 9, 4>>, <<7, 7, 9, 2>>}
         inWindow == /\ nowInChicago.day \in {1, 2, 3, 4, 5}
                     /\ nowInChicago.hour \in 7..18
     IN /\ Len(notes) = 1
        /\ notes[1].kind = IF ~tech THEN "main_line"
                           ELSE IF inWindow THEN "tech_during" ELSE "tech_after"
        /\ (tech /\ nowInChicago.day = 2 /\ nowInChicago.hour = 20)
              => notes[1].kind = "tech_after"

C19_Witness ==
  /\ promptPc = "connect" /\ dialedPhoneNumber = <<1, 7, 7, 9, 4>>
  /\ nowInChicago = [day |-> 2, hour |-> 20]
  /\ \E i \in DOMAIN systemPrompt : systemPrompt[i].kind = "tech_after"

\* C20: when the lookup answered a record with status 'incomplete', the
\* prompt starts with one resume annotation whose lines are exactly the
\* record's keys other than status that hold a non-empty value, each with
\* its value; for any other answer (no record, another status, a failed
\* request, an unparsable body) the prompt has no resume annotation; and
\* after every answer the AI session is opened next.
C20_ResumeAnnotation ==
  /\ []((promptPc = "connect" /\ customerPhoneNumber # NoPhone) =>
         LET resumes == SelectSeq(systemPrompt, LAMBDA n : n.kind = "resume")
             rec == incompleteOrder.rec
             known == {k \in Keys \ {"status"} : rec[k] \notin {"absent", "null", ""}}
         IN IF incompleteOrder.kind = "record" /\ rec["status"] = "incomplete"
            THEN /\ Len(resumes) = 1 /\ Head(systemPrompt).kind = "resume"
                 /\ Len(resumes[1].lines) = Cardinality(known)
                 /\ {resumes[1].lines[i][1] : i \in DOMAIN resumes[1].lines} = known
                 /\ \A i \in DOMAIN resumes[1].lines :
                       resumes[1].lines[i][2] = rec[resumes[1].lines[i][1]]
            ELSE resumes = <<>>)
  /\ [][promptPc = "lookup" /\ promptPc' # "lookup" => promptPc' = "connect"]_vars

C20_Witness ==
  /\ promptPc = "connect" /\ incompleteOrder.kind = "record"
  /\ incompleteOrder.rec["status"] = "incomplete"
  /\ incompleteOrder.rec["firstName"] = "text"
  /\ incompleteOrder.rec["phone"] = ""
  /\ Head(systemPrompt).lines = << <<"firstName", "text">> >>

\* a tool call of the session is awaiting its external collaborator
ToolInFlight(s) ==
  \E t \in DOMAIN tasks[s] : tasks[s][t].st = "await_ext"

\* C21: while a tool call of a session awaits its collaborator, a media
\* frame that arrives on the open socket of the started stream can be
\* relayed, and an audio chunk of the open AI session can be written, at
\* once (as long as the model's frame budget is not used up).
C21_AudioFlowsDuringToolCall ==
  \A s \in Sessions :
     ToolInFlight(s) =>
        /\ ( /\ sock[s] = "open" /\ stream[s] = "started"
             /\ relayed[s] < MaxFrames ) => ENABLED WsMedia(s)
        /\ ( /\ ai[s] = "open"
             /\ wsSent[s] + wsLost[s] < MaxFrames ) => ENABLED AIAudio(s)

C21_Witness ==
  \E s \in Sessions :
     /\ ToolInFlight(s) /\ sock[s] = "open" /\ ai[s] = "open"
     /\ ENABLED WsMedia(s) /\ ENABLED AIAudio(s)

\* the create_work_order requests of a session that are awaiting the
\* records service
CreatesInFlight(s) ==
  {t \in DOMAIN tasks[s] :
      /\ tasks[s][t].st = "await_ext"
      /\ tasks[s][t].calls[tasks[s][t].idx] = "create_work_order"}

\* C22: a session never has two create_work_order requests awaiting the
\* records service at the same time.
C22_OneCreateInFlight ==
  \A s \in Sessions : Cardinality(CreatesInFlight(s)) <= 1

RowsOf(p) == {i \in DOMAIN store.sheet : store.sheet[i].phone = p}

\* C25: the sheet holds at most one record of a number, and a lookup by the
\* number has returned the latest record of it.
C25_SaveOverwrites ==
  \A p \in Phones :
     /\ Cardinality(RowsOf(p)) <= 1
     /\ (store.found.kind = "record" /\ store.found.phone = p)
          => \A i \in RowsOf(p) : store.sheet[i].created <= store.found.created

\* C26: createWorkorder never throws, and it has answered success only
\* when its row was appended to the sheet.
C26_SuccessOnlyIfPersisted ==
  /\ ~store.result.threw
  /\ store.result.success => store.result.appended

\* the magnitude of a number
Abs(v) == IF v < 0 THEN 0 - v ELSE v

\* C27: a sample x with |x| <= 32635 that was encoded and decoded again
\* differs from x by at most 2^(e+3), e the exponent it was encoded with,
\* and has the sign of x unless it is 0.
C27_RoundTripWithinStep ==
  ( /\ codec.path = "roundtrip" /\ codec.pc = "done"
    /\ Abs(codec.pcm8k[1]) <= 32635 )
  => LET x == codec.pcm8k[1]
         y == codec.decoded[1]
         e == ExponentOf(codec.biased[1])
     IN /\ Abs(y - x) <= 2^(e + 3)
        /\ y # 0 => ((y < 0) <=> (x < 0))

\* the sample the stated rule derives from a byte: complement, sign = bit
\* 7, e = bits 6..4, m = bits 3..0, (((m << 3) + 0x84) << e) - 0x84, negated
\* under the sign bit
StatedSample(byte) ==
  LET c == 255 - byte
      e == (c \div 16) % 8
      m == c % 16
      magnitude == ((m * 8 + 132) * 2^e) - 132
  IN IF c >= 128 THEN 0 - magnitude ELSE magnitude

\* C28: mulawDecode returns one sample per byte, each the sample of the
\* stated rule; [0xFF, 0x00, 0x7F, 0x80] decodes to [0, -32124, 0, 32124].
C28_DecodeByStatedRule ==
  ( /\ codec.path = "inbound" /\ codec.pc # "decode" )
  => /\ Len(codec.decoded) = Len(codec.mulaw)
     /\ \A i \in DOMAIN codec.mulaw : codec.decoded[i] = StatedSample(codec.mulaw[i])
     /\ codec.mulaw = <<255, 0, 127, 128>>
          => codec.decoded = <<0, 0 - 32124, 0, 32124>>

\* C29: an upsampled frame of n samples has 2n samples, each input sample
\* twice in a row ([10,-10] gives [10,10,-10,-10]); a downsampled buffer of
\* n samples has the n \div 3 samples input[0], input[3], .., whatever n
\* ([1..6] gives [1,4]).
C29_Resamplers ==
  /\ (codec.path \in {"inbound", "upsample"} /\ codec.pc = "done")
     => /\ Len(codec.pcm16k) = 2 * Len(codec.decoded)
        /\ \A i \in DOMAIN codec.decoded :
              /\ codec.pcm16k[2 * i - 1] = codec.decoded[i]
              /\ codec.pcm16k[2 * i] = codec.decoded[i]
        /\ codec.decoded = <<10, 0 - 10>>
             => codec.pcm16k = <<10, 10, 0 - 10, 0 - 10>>
  /\ (codec.path = "outbound" /\ codec.pc # "downsample")
     => LET input == Int16View(codec.pcm24k)
        IN /\ Len(codec.pcm8k) = Len(input) \div 3
           /\ \A k \in DOMAIN codec.pcm8k : codec.pcm8k[k] = input[3 * (k - 1) + 1]
           /\ input = <<1, 2, 3, 4, 5, 6>> => codec.pcm8k = <<1, 4>>

C29_Witness ==
  /\ codec.path = "outbound" /\ codec.pc = "done"
  /\ Int16View(codec.pcm24k) = <<(0 - 700), (0 - 400), (0 - 100), 200, 500, 800, 1100>>
  /\ Len(codec.pcm24k) = 15
  /\ codec.pcm8k = <<(0 - 700), 200>>

\* C30: for every 16-bit sample the biased magnitude is at most 15 bits
\* wide, the exponent is in 0..7, the sign bit of the code is the sign of
\* the sample, and a sample beyond +-32635 encodes as +-32635 does.
C30_ClipBeforeBias ==
  codec.pc \in {"decode", "done"} /\ codec.path \in {"roundtrip", "outbound"}
  => \A i \in DOMAIN codec.pcm8k :
        LET x == codec.pcm8k[i]
            code == 255 - codec.mulaw[i]
        IN /\ codec.biased[i] \in BIAS..32767
           /\ codec.biased[i] = (IF Abs(x) > MAX_VAL THEN MAX_VAL ELSE Abs(x)) + BIAS
           /\ ExponentOf(codec.biased[i]) \in 0..7
           /\ (code \div 16) % 8 = ExponentOf(codec.biased[i])
           /\ (code >= 128) <=> (x < 0)
           /\ x > MAX_VAL => codec.mulaw[i] = 128
           /\ x < 0 - MAX_VAL => codec.mulaw[i] = 0

C30_Witness ==
  /\ codec.path = "roundtrip" /\ codec.pc = "done"
  /\ codec.pcm8k = <<(0 - 32768)>>
  /\ codec.biased = <<32767>>
  /\ codec.mulaw = <<0>>

\* the business-hours decision the prompt of a technician line shows
DecidedDuring == \E i \in DOMAIN systemPrompt : systemPrompt[i].kind = "tech_during"
DecidedAfter == \E i \in DOMAIN systemPrompt : systemPrompt[i].kind = "tech_after"

\* C31: the business-hours decision taken for a technician line is "during"
\* exactly when the wall clock of Chicago shows Monday to Friday and an hour
\* from 7 up to but not including 19: hour 7 is inside, hour 19 is outside,
\* every hour of Saturday and Sunday is outside.
C31_BusinessHoursExact ==
  (DecidedDuring \/ DecidedAfter) =>
     LET day == nowInChicago.day
         hour == nowInChicago.hour
     IN /\ DecidedDuring <=> ~DecidedAfter
        /\ DecidedDuring <=> (day >= 1 /\ day <= 5 /\ hour >= 7 /\ hour < 19)
        /\ (day = 1 /\ hour = 7) => DecidedDuring
        /\ (day = 5 /\ hour = 18) => DecidedDuring
        /\ hour = 19 => DecidedAfter
        /\ hour = 6 => DecidedAfter
        /\ day \in {0, 6} => DecidedAfter

C31_Witness ==
  /\ promptPc = "connect" /\ DecidedAfter
  /\ nowInChicago = [day |-> 3, hour |-> 19]

\* C32: the tool results handed back to the chat hold one functionResponse
\* for each function call of the batch, in the order of the calls; the
\* response of a failed or unknown tool is an error payload, the batch goes
\* on after it, and handleSmsToolCall never throws.
C32_OneResponsePerSmsCall ==
  /\ ~sms.threw
  /\ (sms.functionCalls # <<>> /\ sms.pc \in {"results", "done"})
     => /\ Len(sms.parts) = Len(sms.functionCalls)
        /\ \A i \in DOMAIN sms.functionCalls :
              /\ sms.parts[i].name = sms.functionCalls[i]
              /\ sms.parts[i].response \in {"json", "error"}
              /\ sms.functionCalls[i] \notin
                    {"send_sms", "create_work_order", "get_zipcode_for_address",
                     "lookup_work_order"}
                 => sms.parts[i].response = "error"

C32_Witness ==
  /\ sms.pc = "done"
  /\ sms.functionCalls = <<"route_to_technician", "lookup_work_order">>
  /\ sms.parts = <<[name |-> "route_to_technician", response |-> "error"],
                   [name |-> "lookup_work_order", response |-> "json"]>>

\* C33: when the callback of a timer ends, the removal from the map takes
\* only that timer's own entry: an entry that holds another, later armed
\* timer of the same number stays, so that timer can still be cancelled.
C33_FiredTimerRemovesOwnEntry ==
  [][\A h \in Sessions :
       (timers[h].st \in {"fetching", "placing"} /\ timers'[h].st = "done")
       => LET p == timers[h].phone
          IN callbackTimers[p] \notin {NoTimer, h}
             => callbackTimers'[p] = callbackTimers[p]]_vars

\* C34: a session that the callback itself opened (context=callback) and
\* that ends without a work order causes no further automatic callback: no
\* outbound call is placed on account of its drop.
C34_NoCallbackAfterCallback ==
  \A s \in Sessions : opened[s] # NoTimer => timers[s].call # "placed"

\* C35: a lookup by a number that has returned the record the latest create
\* request appended for that number returns the status that request
\* carried: 'incomplete' for an incomplete record, 'complete' for a
\* complete one.
C35_LookupReturnsStoredStatus ==
  ( /\ store.pc = "idle"
    /\ store.result.appended
    /\ store.found.kind = "record"
    /\ store.found.created = store.clock
    /\ store.request.body.phone = store.found.phone
    /\ store.request.body.status \in {"incomplete", "complete"} )
  => store.found.status = store.request.body.status

\* a sequence of frame numbers in the order of their arrival
InOrder(q) == \A i, j \in DOMAIN q : i < j => q[i] < q[j]

\* C36: the frames written to the call socket are in the order in which the
\* AI session delivered them, and the frames sent to the AI session are in
\* the order in which the call socket delivered them, whether or not a
\* tool call is being dispatched; a frame is handed on at most once.
C36_FramesRelayedInOrder ==
  /\ InOrder(relay.toWs)
  /\ InOrder(relay.toAI)
  /\ \A k \in DOMAIN relay.toWs : relay.toWs[k] <= relay.chunks
  /\ \A k \in DOMAIN relay.toAI : relay.toAI[k] <= relay.media

C36_Witness ==
  /\ relay.toWs = <<1, 2>>
  /\ relay.toAI = <<1, 2>>
  /\ ToolInFlight(1)

\* C37: every entry put into the map of pending callbacks is removed again:
\* a number that has an entry is later without one, because a call of the
\* number cancelled it or because a callback ran to its end and deleted it.
C37_EntryEventuallyRemoved ==
  \A p \in Phones : (callbackTimers[p] # NoTimer) ~> (callbackTimers[p] = NoTimer)

C37_Witness ==
  \E h \in Sessions :
     /\ timers[h].st = "done" /\ timers[h].call = "placed"
     /\ callbackTimers[timers[h].phone] = NoTimer
     /\ \E k \in Sessions : timers[k].st = "cancelled"

\* C38: once the AI session of a call has been closed, sendToolResponse is
\* not called on it any more: a tool dispatch that completes after the
\* socket closed sends no response, and no fault goes unhandled.
C38_NoResponseAfterSessionClosed ==
  [][\A s \in Sessions :
       ai[s] = "closed"
       => /\ toolResponses'[s] = toolResponses[s]
          /\ uncaught' = uncaught]_vars

\* C39: for every sample of a frame the exponent search of mulawEncode
\* ends on a set bit at or above 0x80, which the bias provides, so every
\* sample of the frame gets its byte: the frame of n samples is encoded to
\* n bytes.
C39_ExponentSearchEnds ==
  codec.pc \in {"decode", "done"} /\ codec.path \in {"roundtrip", "outbound"}
  => /\ Len(codec.mulaw) = Len(codec.pcm8k)
     /\ \A i \in DOMAIN codec.pcm8k :
           LET found == ExponentLoop(codec.biased[i], 7, 16384)
           IN /\ codec.biased[i] >= 128
              /\ found >= 0 /\ found <= 7
              /\ BitAnd(codec.biased[i], 2 ^ (found + 7)) # 0
              /\ codec.mulaw[i] \in 0..255

C39_Witness ==
  /\ codec.path = "roundtrip" /\ codec.pc = "done"
  /\ codec.pcm8k = <<0>>
  /\ codec.biased = <<BIAS>>
  /\ codec.mulaw = <<255>>

====
